---- MODULE Spec2Model ----
(***************************************************************************)
(* Model of the TensorFlow batch-execution interface                       *)
(* (pennylane/interfaces/batch/tensorflow.py): execute, _execute and the   *)
(* gradient closure grad_fn, together with the measurement check of        *)
(* hamiltonian_expand (pennylane/transforms/hamiltonian_expand.py).        *)
(*                                                                         *)
(* A tape is a record                                                      *)
(*   params           sequence of [val, tr]: the value of a parameter and  *)
(*                    whether the autodiff framework tracks it             *)
(*   trainable_params the index set stored on the tape                     *)
(*   unwrapped        TRUE while the tape is inside an Unwrap context      *)
(*   nmeas            the length of the tape's result                      *)
(* Indices are 1-based.                                                    *)
(***************************************************************************)
EXTENDS Integers, Sequences, FiniteSets

VARIABLES
    batch,     \* the tapes handed to execute, as they were before the call
    call,      \* the arguments of the user's call to execute
    frames,    \* the live executor invocations: frame k+1 was created by the
               \* latest recursive backward pass of frame k
    last,      \* what the most recent backward invocation did
    hcall,     \* the arguments of the call to hamiltonian_expand
    hout,      \* the outcome of hamiltonian_expand
    drawer     \* the MPLDrawer: its size, the artists on its axes and the
               \* calls to box_gate made so far

vars == <<batch, call, frames, last, hcall, hout, drawer>>

----------------------------------------------------------------------------
(* Bounds of the model.                                                    *)

\* most tapes in the batch handed to execute
MaxTapes == 2
\* most parameters in the batch handed to execute, over all its tapes
MaxParams == 2
\* largest max_diff; _n ranges over 1 .. MaxDiff + 1
MaxDiff == 2

\* nesting counters are followed up to this depth
MaxDepth == MaxDiff + 1

\* upstream gradients dy are built from these base values
DyBases == {1, 2}

\* the device handed to execute, and another device
Devices == {"dev", "other_dev"}

----------------------------------------------------------------------------
(* Sequences.                                                              *)

RECURSIVE SumSeq(_)
SumSeq(s) == IF s = <<>> THEN 0 ELSE Head(s) + SumSeq(Tail(s))

RECURSIVE Flatten(_)
Flatten(ss) == IF ss = <<>> THEN <<>> ELSE Head(ss) \o Flatten(Tail(ss))

\* the members of S among lo..hi, in ascending order
RECURSIVE Ascending(_, _, _)
Ascending(S, lo, hi) ==
    IF lo > hi THEN <<>>
    ELSE (IF lo \in S THEN <<lo>> ELSE <<>>) \o Ascending(S, lo + 1, hi)

----------------------------------------------------------------------------
(* Tapes and the operations of their external contract.                    *)

\* qml.math.get_trainable_indices: the positions of the tracked parameters
get_trainable_indices(params) == {j \in 1..Len(params) : params[j].tr}

\* tape.get_parameters(trainable_only=False)
get_all_parameters(tape) == tape.params

\* tape.get_parameters(): the parameters at the stored trainable indices
get_parameters(tape) ==
    LET idx == Ascending(tape.trainable_params, 1, Len(tape.params))
    IN  [c \in 1..Len(idx) |-> tape.params[idx[c]]]

num_params(tape) == Len(get_parameters(tape))

\* qml.tape.Unwrap.__enter__ / __exit__ on a batch of tapes
UnwrapEnter(tps) == [i \in 1..Len(tps) |-> [tps[i] EXCEPT !.unwrapped = TRUE]]
UnwrapRestore(tps) == [i \in 1..Len(tps) |-> [tps[i] EXCEPT !.unwrapped = FALSE]]

\* the tapes on leaving a `with qml.tape.Unwrap(*tapes)` block, normally or by
\* an exception raised inside it
UnwrapExitNoFinally(tps, raised) == IF raised THEN tps ELSE UnwrapRestore(tps)
UnwrapExit(tps, raised) == UnwrapRestore(tps)

----------------------------------------------------------------------------
(* The device: results and Jacobians of a tape.                            *)

\* the function the device evaluates: row r of a tape's result is r times the
\* sum of the squares of the tape's parameters
SquareSum(tape) ==
    SumSeq([j \in 1..Len(tape.params) |-> tape.params[j].val * tape.params[j].val])

\* the result of one tape: a vector of nmeas entries
DeviceResult(tape) == [r \in 1..tape.nmeas |-> r * SquareSum(tape)]

\* the Jacobian of one tape: nmeas rows, one column per trainable parameter
DeviceJacobian(tape) ==
    LET ps == get_parameters(tape)
    IN  [r \in 1..tape.nmeas |-> [c \in 1..Len(ps) |-> 2 * r * ps[c].val]]

\* execute_fn(tapes, **kwargs) -> (results, jacobians); jacobians are empty
\* unless the execution function computes them on the forward pass
ExecuteFn(efn, tps) ==
    [res  |-> [i \in 1..Len(tps) |-> DeviceResult(tps[i])],
     jacs |-> IF efn = "forward_mode"
              THEN [i \in 1..Len(tps) |-> DeviceJacobian(tps[i])]
              ELSE <<>>]

\* a device gradient method: gradient_fn(tapes, **kwargs) -> jacobians
DeviceGradient(tps) == [i \in 1..Len(tps) |-> DeviceJacobian(tps[i])]

----------------------------------------------------------------------------
(* qml.gradients: compute_vjp and batch_vjp.                               *)

\* the contraction of dy (one entry per result row) against a Jacobian
compute_vjp(d, jac) ==
    LET rows == IF Len(d) <= Len(jac) THEN Len(d) ELSE Len(jac)
        cols == IF Len(jac) = 0 THEN 0 ELSE Len(jac[1])
    IN  [c \in 1..cols |-> SumSeq([r \in 1..rows |-> d[r] * jac[r][c]])]

\* zip(dy, jacs): pairs up to the shorter of the two
ZipLen(dy, jacs) == IF Len(dy) <= Len(jacs) THEN Len(dy) ELSE Len(jacs)

\* the shift a gradient tape applies to its parameter
Shift == 100

\* the gradient tape of one trainable parameter: the tape with that parameter
\* shifted; built from unwrapped tapes its parameters are plain numbers
ShiftedTape(tape, c) ==
    LET idx == Ascending(tape.trainable_params, 1, Len(tape.params))
        at  == idx[c]
    IN  [params |-> [j \in 1..Len(tape.params) |->
                        [val |-> IF j = at THEN tape.params[j].val + Shift
                                 ELSE tape.params[j].val,
                         tr  |-> tape.params[j].tr /\ ~tape.unwrapped]],
         trainable_params |-> tape.trainable_params,
         unwrapped |-> FALSE,
         nmeas |-> tape.nmeas]

\* batch_vjp(..., reduction="extend").vjp_tapes: one gradient tape per
\* trainable parameter, tape by tape
VjpTapes(tps) ==
    Flatten([i \in 1..Len(tps) |->
                [c \in 1..num_params(tps[i]) |-> ShiftedTape(tps[i], c)]])

\* the position in VjpTapes(tps) of the gradient tape of parameter c of tape i
VjpIndex(tps, i, c) == SumSeq([k \in 1..(i - 1) |-> num_params(tps[k])]) + c

\* batch_vjp(..., reduction="extend").processing_fn applied to the results
ProcessingFn(tps, dy, res) ==
    Flatten([i \in 1..Len(tps) |->
        [c \in 1..num_params(tps[i]) |->
            LET rr == res[VjpIndex(tps, i, c)]
                d  == IF i <= Len(dy) THEN dy[i] ELSE <<>>
                rows == IF Len(d) <= Len(rr) THEN Len(d) ELSE Len(rr)
            IN  SumSeq([r \in 1..rows |-> d[r] * rr[r]])]])

----------------------------------------------------------------------------
(* execute and _execute: the forward pass.                                 *)

\* the loop that recomputes and stores every tape's trainable indices
SetTrainableParams(tps) ==
    [i \in 1..Len(tps) |->
        [tps[i] EXCEPT !.trainable_params =
            get_trainable_indices(get_all_parameters(tps[i]))]]

\* the loop that flattens the tapes' parameters, in tape order
FlattenParameters(tps) == Flatten([i \in 1..Len(tps) |-> get_parameters(tps[i])])

\* the parameter vector execute hands to _execute
ExecuteParametersStale(tps) == FlattenParameters(tps)
ExecuteParameters(tps) == FlattenParameters(SetTrainableParams(tps))

\* one call recorded in the log of a handler: the function called, the
\* function calling it, whether the batch's tapes were unwrapped at the call,
\* and the keyword arguments passed
CallEntry(fn, by, unwrapped, kwargs) ==
    [fn |-> fn, by |-> by, unwrapped |-> unwrapped, kwargs |-> kwargs]

\* _execute up to the point where grad_fn is defined: execute_fn runs on the
\* unwrapped tapes; exc names the call that raises, if any
ExecuteForward(tps, a, exc) ==
    LET raised == exc = "execute_fn"
        inside == UnwrapEnter(tps)
        out    == ExecuteFn(a.execute_fn, inside)
    IN  [tapes  |-> UnwrapExit(inside, raised),
         status |-> IF raised THEN "FORWARD_RAISED" ELSE "FORWARD_EXECUTED",
         res    |-> IF raised THEN <<>> ELSE out.res,
         jacs   |-> IF raised THEN <<>> ELSE out.jacs,
         calls  |-> <<CallEntry("execute_fn", "_execute", TRUE, a.gradient_kwargs)>>]

\* execute(tapes, device, execute_fn, gradient_fn, gradient_kwargs, _n, max_diff):
\* the executor invocation it creates
ExecuteCall(tps, a, exc) ==
    LET stored == SetTrainableParams(tps)
        fwd    == ExecuteForward(stored, a, exc)
    IN  [tapes           |-> fwd.tapes,
         parameters      |-> ExecuteParameters(tps),
         device          |-> a.device,
         execute_fn      |-> a.execute_fn,
         gradient_fn     |-> a.gradient_fn,
         gradient_kwargs |-> a.gradient_kwargs,
         n               |-> a.n,
         max_diff        |-> a.max_diff,
         status          |-> fwd.status,
         res             |-> fwd.res,
         jacs            |-> fwd.jacs]

\* the arguments a frame was called with
ArgsOf(f) ==
    [device |-> f.device, execute_fn |-> f.execute_fn, gradient_fn |-> f.gradient_fn,
     gradient_kwargs |-> f.gradient_kwargs, n |-> f.n, max_diff |-> f.max_diff]

----------------------------------------------------------------------------
(* grad_fn: the backward pass.                                             *)

\* "pennylane.gradients" in the name of gradient_fn's module
IsGradientTransform(gfn) == gfn.inGradients

\* hasattr(gradient_fn, "fn") and inspect.ismethod(gradient_fn.fn)
\* and gradient_fn.fn.__self__ is device
IsDeviceMethod(gfn, device) ==
    /\ gfn.fn # "none"
    /\ gfn.fn \in Devices
    /\ gfn.fn = device

\* as SelectBranch, with the depth test inverted
SelectBranchInverted(f) ==
    IF f.jacs # <<>> THEN "DIRECT_VJP"
    ELSE IF IsGradientTransform(f.gradient_fn)
         THEN IF f.n # f.max_diff THEN "DEPTH_EXHAUSTED_VJP" ELSE "RECURSIVE_VJP"
    ELSE IF IsDeviceMethod(f.gradient_fn, f.device) THEN "DEVICE_VJP"
    ELSE "ERROR"

\* as SelectBranch, with the device-method test ahead of the transform test
SelectBranchDeviceFirst(f) ==
    IF f.jacs # <<>> THEN "DIRECT_VJP"
    ELSE IF IsDeviceMethod(f.gradient_fn, f.device) THEN "DEVICE_VJP"
    ELSE IF IsGradientTransform(f.gradient_fn)
         THEN IF f.n = f.max_diff THEN "DEPTH_EXHAUSTED_VJP" ELSE "RECURSIVE_VJP"
    ELSE "ERROR"

\* the branch grad_fn takes
SelectBranch(f) ==
    IF f.jacs # <<>> THEN "DIRECT_VJP"
    ELSE IF IsGradientTransform(f.gradient_fn)
         THEN IF f.n = f.max_diff THEN "DEPTH_EXHAUSTED_VJP" ELSE "RECURSIVE_VJP"
    ELSE IF IsDeviceMethod(f.gradient_fn, f.device) THEN "DEVICE_VJP"
    ELSE "ERROR"

\* as ContractAll, with every tape's contraction put in front of the earlier ones
ContractAllPrepended(dy, jacs) ==
    Flatten([i \in 1..ZipLen(dy, jacs) |->
                compute_vjp(dy[ZipLen(dy, jacs) + 1 - i], jacs[ZipLen(dy, jacs) + 1 - i])])

\* for d, jac in zip(dy, jacs): vjps.extend(compute_vjp(d, jac))
ContractAll(dy, jacs) ==
    Flatten([i \in 1..ZipLen(dy, jacs) |-> compute_vjp(dy[i], jacs[i])])

\* what a branch leaves behind: the frame's tapes and stored Jacobians, the
\* VJP vector, the calls made, the exception raised and the executor
\* invocation created by a recursive call
Outcome(tps, jacs, vjps, calls, raised, nested) ==
    [tapes |-> tps, jacs |-> jacs, vjps |-> vjps, calls |-> calls,
     raised |-> raised, nested |-> nested]

\* as DirectVjp, but asking gradient_fn for the Jacobians again
DirectVjpRecomputed(f, dy, exc) ==
    Outcome(f.tapes, f.jacs, ContractAll(dy, DeviceGradient(UnwrapEnter(f.tapes))),
            <<CallEntry("gradient_fn", "grad_fn", TRUE, f.gradient_kwargs)>>, "none", <<>>)

DirectVjp(f, dy, exc) ==
    Outcome(f.tapes, f.jacs, ContractAll(dy, f.jacs), <<>>, "none", <<>>)

DepthExhaustedVjp(f, dy, exc) ==
    LET inside    == UnwrapEnter(f.tapes)
        inWith    == exc \in {"_update", "batch_vjp"}
        after     == UnwrapExit(inside, inWith)
        updates   == [i \in 1..(IF exc = "_update" THEN 1 ELSE Len(inside)) |->
                         CallEntry("_update", "grad_fn", TRUE, "none")]
        bvjp      == CallEntry("batch_vjp", "grad_fn", TRUE, f.gradient_kwargs)
        vjp_tapes == VjpTapes(inside)
        run       == CallEntry("execute_fn", "grad_fn", FALSE, "none")
        res       == ExecuteFn(f.execute_fn, vjp_tapes).res
    IN  IF exc = "_update"
        THEN Outcome(after, f.jacs, <<>>, updates, "_update", <<>>)
        ELSE IF exc = "batch_vjp"
        THEN Outcome(after, f.jacs, <<>>, updates \o <<bvjp>>, "batch_vjp", <<>>)
        ELSE IF exc = "execute_fn"
        THEN Outcome(after, f.jacs, <<>>, updates \o <<bvjp, run>>, "execute_fn", <<>>)
        ELSE Outcome(after, f.jacs, ProcessingFn(inside, dy, res),
                     updates \o <<bvjp, run>>, "none", <<>>)

\* as RecursiveVjp, but passing _n on unchanged
RecursiveVjpSameDepth(f, dy, exc) ==
    LET bvjp      == CallEntry("batch_vjp", "grad_fn", FALSE, f.gradient_kwargs)
        vjp_tapes == VjpTapes(f.tapes)
        rec       == CallEntry("execute", "grad_fn", FALSE, f.gradient_kwargs)
        inner     == ExecuteCall(vjp_tapes, ArgsOf(f), exc)
        fwd       == CallEntry("execute_fn", "_execute", TRUE, f.gradient_kwargs)
    IN  IF exc = "batch_vjp"
        THEN Outcome(f.tapes, f.jacs, <<>>, <<bvjp>>, "batch_vjp", <<>>)
        ELSE IF exc = "execute_fn"
        THEN Outcome(f.tapes, f.jacs, <<>>, <<bvjp, rec, fwd>>, "execute_fn", <<inner>>)
        ELSE Outcome(f.tapes, f.jacs, ProcessingFn(f.tapes, dy, inner.res),
                     <<bvjp, rec, fwd>>, "none", <<inner>>)

RecursiveVjp(f, dy, exc) ==
    LET bvjp      == CallEntry("batch_vjp", "grad_fn", FALSE, f.gradient_kwargs)
        vjp_tapes == VjpTapes(f.tapes)
        rec       == CallEntry("execute", "grad_fn", FALSE, f.gradient_kwargs)
        inner     == ExecuteCall(vjp_tapes, [ArgsOf(f) EXCEPT !.n = f.n + 1], exc)
        fwd       == CallEntry("execute_fn", "_execute", TRUE, f.gradient_kwargs)
    IN  IF exc = "batch_vjp"
        THEN Outcome(f.tapes, f.jacs, <<>>, <<bvjp>>, "batch_vjp", <<>>)
        ELSE IF exc = "execute_fn"
        THEN Outcome(f.tapes, f.jacs, <<>>, <<bvjp, rec, fwd>>, "execute_fn", <<inner>>)
        ELSE Outcome(f.tapes, f.jacs, ProcessingFn(f.tapes, dy, inner.res),
                     <<bvjp, rec, fwd>>, "none", <<inner>>)

\* as DeviceVjp, with gradient_fn called outside the Unwrap block
DeviceVjpWrapped(f, dy, exc) ==
    LET raised == exc = "gradient_fn"
        g      == CallEntry("gradient_fn", "grad_fn", FALSE, f.gradient_kwargs)
        jacs   == DeviceGradient(f.tapes)
    IN  IF raised
        THEN Outcome(f.tapes, f.jacs, <<>>, <<g>>, "gradient_fn", <<>>)
        ELSE Outcome(f.tapes, jacs, ContractAll(dy, jacs), <<g>>, "none", <<>>)

\* as DeviceVjp, with the Jacobians kept in a variable local to grad_fn
DeviceVjpLocalJacs(f, dy, exc) ==
    LET inside == UnwrapEnter(f.tapes)
        raised == exc = "gradient_fn"
        after  == UnwrapExit(inside, raised)
        g      == CallEntry("gradient_fn", "grad_fn", TRUE, f.gradient_kwargs)
        jacs   == DeviceGradient(inside)
    IN  IF raised
        THEN Outcome(after, f.jacs, <<>>, <<g>>, "gradient_fn", <<>>)
        ELSE Outcome(after, f.jacs, ContractAll(dy, jacs), <<g>>, "none", <<>>)

DeviceVjp(f, dy, exc) ==
    LET inside == UnwrapEnter(f.tapes)
        raised == exc = "gradient_fn"
        after  == UnwrapExit(inside, raised)
        g      == CallEntry("gradient_fn", "grad_fn", TRUE, f.gradient_kwargs)
        jacs   == DeviceGradient(inside)
    IN  IF raised
        THEN Outcome(after, f.jacs, <<>>, <<g>>, "gradient_fn", <<>>)
        ELSE Outcome(after, jacs, ContractAll(dy, jacs), <<g>>, "none", <<>>)

\* as UnknownGradientFn, without the final else clause
UnknownGradientFnSilent(f, dy, exc) ==
    Outcome(f.tapes, f.jacs, <<>>, <<>>, "none", <<>>)

UnknownGradientFn(f, dy, exc) ==
    Outcome(f.tapes, f.jacs, <<>>, <<>>, "ValueError", <<>>)

\* the body of grad_fn up to its return statement
GradFnBody(f, dy, exc) ==
    LET b == SelectBranch(f)
    IN  CASE b = "DIRECT_VJP"          -> DirectVjp(f, dy, exc)
          [] b = "DEPTH_EXHAUSTED_VJP" -> DepthExhaustedVjp(f, dy, exc)
          [] b = "RECURSIVE_VJP"       -> RecursiveVjp(f, dy, exc)
          [] b = "DEVICE_VJP"          -> DeviceVjp(f, dy, exc)
          [] OTHER                     -> UnknownGradientFn(f, dy, exc)

\* tfkwargs.get("variables", None)
GetVariables(tfkwargs) ==
    IF "variables" \in DOMAIN tfkwargs THEN tfkwargs["variables"] ELSE "None"

\* return (vjps, variables) if variables is not None else vjps
ReturnValueAlwaysPair(vjps, variables) ==
    [kind |-> "pair", vjps |-> vjps, variables |-> variables]
ReturnValue(vjps, variables) ==
    IF variables # "None"
    THEN [kind |-> "pair", vjps |-> vjps, variables |-> variables]
    ELSE [kind |-> "vjps", vjps |-> vjps, variables |-> "None"]

----------------------------------------------------------------------------
(* Inputs.                                                                 *)

\* the trainability flags of one tape's parameters
FlagSeqs == UNION {[1..l -> BOOLEAN] : l \in 0..MaxParams}

\* a tape as constructed: every parameter counts as trainable until execute
\* recomputes the index set; tape i holds the values 10*i + j
NewTape(i, flags) ==
    [params |-> [j \in 1..Len(flags) |-> [val |-> 10 * i + j, tr |-> flags[j]]],
     trainable_params |-> 1..Len(flags),
     unwrapped |-> FALSE,
     nmeas |-> 1 + ((i + 1) % 2)]

Batches ==
    UNION {{[i \in 1..k |-> NewTape(i, fs[i])] :
               fs \in {g \in [1..k -> FlagSeqs] :
                          SumSeq([i \in 1..k |-> Len(g[i])]) <= MaxParams}} :
           k \in 1..MaxTapes}

\* gradient_fn: whether its module lies under pennylane.gradients, and its
\* attribute fn: absent, a plain function, or a method bound to a device
GradientFns ==
    {[inGradients |-> g, fn |-> f] : g \in BOOLEAN, f \in {"none", "function"} \cup Devices}

ExecuteFns == {"forward_mode", "backward_mode"}

\* the keyword arguments the framework passes to grad_fn
TfKwargs == {<<>>, [variables |-> "None"], [variables |-> "w"]}

\* the external calls a branch of grad_fn makes, each of which may raise
RaisePoints(branch) ==
    CASE branch = "DEPTH_EXHAUSTED_VJP" -> {"_update", "batch_vjp", "execute_fn"}
      [] branch = "RECURSIVE_VJP"       -> {"batch_vjp", "execute_fn"}
      [] branch = "DEVICE_VJP"          -> {"gradient_fn"}
      [] OTHER                          -> {}

\* dy: one upstream gradient per tape, shaped like the tape's result
DyFor(tps, b) == [i \in 1..Len(tps) |-> [r \in 1..tps[i].nmeas |-> b + i + r]]

NoCall ==
    [op |-> "none", frame |-> 0, dy |-> <<>>, tfkwargs |-> <<>>, branch |-> "none",
     calls |-> <<>>, raised |-> "none", ret |-> [kind |-> "none"]]

NoExpand == [tape |-> [operations |-> <<>>, measurements |-> <<>>], group |-> TRUE]

\* MPLDrawer(n_layers, n_wires): the axes hold one line per wire
NewDrawer(n_layers, n_wires) ==
    [n_layers |-> n_layers,
     n_wires  |-> n_wires,
     ax       |-> [w \in 1..n_wires |-> [kind |-> "line", wire |-> w - 1]],
     log      |-> <<>>]

----------------------------------------------------------------------------
(* The executor as a state machine.                                        *)

Init ==
    /\ batch \in Batches
    /\ call \in [device : {"dev"}, execute_fn : ExecuteFns, gradient_fn : GradientFns,
                 gradient_kwargs : {"kw"}, n : 1..(MaxDiff + 1), max_diff : 1..MaxDiff]
    /\ frames = <<>>
    /\ last = NoCall
    /\ hcall = NoExpand
    /\ hout = [status |-> "none"]
    /\ drawer = NewDrawer(1, 1)

\* the user's call execute(batch, ...)
Execute(exc) ==
    /\ frames = <<>>
    /\ frames' = <<ExecuteCall(batch, call, exc)>>
    /\ UNCHANGED <<batch, call, last, hcall, hout, drawer>>

\* what grad_fn(*dy, **tfkwargs) of the closure of frame k does to the state
GradFnEffect(k, dy, tfkwargs, exc) ==
    \E out \in {GradFnBody(frames[k], dy, exc)} :
        /\ frames' = IF out.nested = <<>>
                      THEN [frames EXCEPT ![k].tapes = out.tapes, ![k].jacs = out.jacs]
                      ELSE SubSeq(frames, 1, k) \o out.nested
        /\ last' = [op |-> "grad_fn", frame |-> k, dy |-> dy, tfkwargs |-> tfkwargs,
                    branch |-> SelectBranch(frames[k]), calls |-> out.calls,
                    raised |-> out.raised,
                    ret |-> IF out.raised = "none"
                            THEN ReturnValue(out.vjps, GetVariables(tfkwargs))
                            ELSE [kind |-> "raised"]]

\* the first backward invocation grad_fn(*dy, **tfkwargs) of the closure of
\* frame k, the newest executor invocation
GradFn(k, b, tfkwargs, exc) ==
    /\ k = Len(frames)
    /\ last.frame < k
    /\ frames[k].status = "FORWARD_EXECUTED"
    /\ exc \in {"none"} \cup RaisePoints(SelectBranch(frames[k]))
    /\ SelectBranch(frames[k]) = "RECURSIVE_VJP" => frames[k].n < MaxDepth
    /\ GradFnEffect(k, DyFor(frames[k].tapes, b), tfkwargs, exc)
    /\ UNCHANGED <<batch, call, hcall, hout, drawer>>

\* a later backward invocation of the closure invoked last, with the same
\* arguments, after it has returned
GradFnAgain ==
    /\ last.op = "grad_fn"
    /\ last.raised = "none"
    /\ GradFnEffect(last.frame, last.dy, last.tfkwargs, "none")
    /\ UNCHANGED <<batch, call, hcall, hout, drawer>>

Next ==
    \/ \E exc \in {"none", "execute_fn"} : Execute(exc)
    \/ \E k \in 1..Len(frames), b \in DyBases, kw \in TfKwargs,
          exc \in {"none", "execute_fn", "gradient_fn", "_update", "batch_vjp"} :
          GradFn(k, b, kw, exc)
    \/ GradFnAgain

Spec == Init /\ [][Next]_vars

----------------------------------------------------------------------------
(* hamiltonian_expand.                                                     *)

\* most measurements on the tape handed to hamiltonian_expand
MaxMeas == 2
\* most terms of a Hamiltonian
MaxTerms == 2

\* the groupings of the terms 1..n: lists of index lists, every index in
\* exactly one list, lists ordered by their first index
Groupings(n) ==
    {[g \in 1..Cardinality({a[i] : i \in 1..n}) |-> Ascending({i \in 1..n : a[i] = g}, 1, n)] :
        a \in {b \in [1..n -> 1..n] :
                  /\ b[1] = 1
                  /\ \A i \in 2..n : \E j \in 1..(i - 1) : b[i] <= b[j] + 1}}

\* grouping_indices of a Hamiltonian that stores no grouping (None)
NoGrouping == <<>>

\* a Hamiltonian of n terms: term i has coefficient 10*i and observable i;
\* grouping_indices is NoGrouping or the stored grouping, and computed is the
\* grouping get_groupings arrives at when none is stored
Hamiltonians ==
    UNION {{[type |-> "Hamiltonian", coeffs |-> [i \in 1..n |-> 10 * i],
             ops |-> [i \in 1..n |-> i], grouping_indices |-> NoGrouping, computed |-> c] :
                c \in Groupings(n)}
           \cup
           {[type |-> "Hamiltonian", coeffs |-> [i \in 1..n |-> 10 * i],
             ops |-> [i \in 1..n |-> i], grouping_indices |-> c, computed |-> c] :
                c \in Groupings(n)} :
           n \in 1..MaxTerms}

Observables == Hamiltonians \cup {[type |-> "PauliZ"]}

Measurements == [obs : Observables, return_type : {"Expectation", "Variance"}]

OperationLists == {<<>>, <<"Hadamard", "CNOT">>}

HTapes ==
    [operations : OperationLists,
     measurements : UNION {[1..m -> Measurements] : m \in 0..MaxMeas}]

\* hamiltonian.get_groupings(): the coefficients and the observables by group
get_groupings(h) ==
    LET gi == IF h.grouping_indices = NoGrouping THEN h.computed ELSE h.grouping_indices
    IN  [coeffs |-> [g \in 1..Len(gi) |-> [c \in 1..Len(gi[g]) |-> h.coeffs[gi[g][c]]]],
         obs    |-> [g \in 1..Len(gi) |-> [c \in 1..Len(gi[g]) |-> h.ops[gi[g][c]]]]]

\* the test that guards hamiltonian_expand; its first operand reads
\* tape.measurements[0]
MeasurementCheck(tape) ==
    IF Len(tape.measurements) = 0 THEN "IndexError"
    ELSE IF \/ tape.measurements[1].obs.type # "Hamiltonian"
            \/ Len(tape.measurements) > 1
            \/ tape.measurements[1].return_type # "Expectation"
         THEN "ValueError"
    ELSE "ok"

\* as ExpandGroupings, with a stored grouping used only on request
ExpandGroupingsOnRequest(h, group) ==
    IF group
    THEN get_groupings(h)
    ELSE [coeffs |-> [i \in 1..Len(h.ops) |-> h.coeffs[i]],
          obs    |-> [i \in 1..Len(h.ops) |-> <<h.ops[i]>>]]

\* the groups hamiltonian_expand splits the Hamiltonian into
ExpandGroupings(h, group) ==
    IF group \/ h.grouping_indices # NoGrouping
    THEN get_groupings(h)
    ELSE [coeffs |-> [i \in 1..Len(h.ops) |-> h.coeffs[i]],
          obs    |-> [i \in 1..Len(h.ops) |-> <<h.ops[i]>>]]

\* the tape measuring the observables of one group
GroupTape(tape, obs) ==
    [operations   |-> tape.operations,
     measurements |-> [c \in 1..Len(obs) |->
                          [obs |-> [type |-> "Term", id |-> obs[c]],
                           return_type |-> "Expectation"]]]

\* hamiltonian_expand(tape, group)
HamiltonianExpandResult(tape, group) ==
    IF MeasurementCheck(tape) # "ok"
    THEN [status |-> MeasurementCheck(tape)]
    ELSE LET gr == ExpandGroupings(tape.measurements[1].obs, group)
         IN  [status |-> "returned",
              tapes  |-> [g \in 1..Len(gr.obs) |-> GroupTape(tape, gr.obs[g])],
              coeffs_groupings |-> gr.coeffs]

InitH ==
    /\ batch = <<NewTape(1, <<>>)>>
    /\ call = [device |-> "dev", execute_fn |-> "backward_mode",
               gradient_fn |-> [inGradients |-> TRUE, fn |-> "none"],
               gradient_kwargs |-> "kw", n |-> 1, max_diff |-> 1]
    /\ frames = <<>>
    /\ last = NoCall
    /\ hcall \in [tape : HTapes, group : BOOLEAN]
    /\ hout = [status |-> "none"]
    /\ drawer = NewDrawer(1, 1)

HamiltonianExpand ==
    /\ hout.status = "none"
    /\ hout' = HamiltonianExpandResult(hcall.tape, hcall.group)
    /\ UNCHANGED <<batch, call, frames, last, hcall, drawer>>

\* the expectation values of the terms are built from these base values
ResultBases == {1, 2}

\* the expectation value a device finds for term id
TermValue(id, b) == 3 * id + b

\* the results of executing the returned tapes: one value per measurement
ExecuteGroupTapes(tps, b) ==
    [g \in 1..Len(tps) |->
        [c \in 1..Len(tps[g].measurements) |-> TermValue(tps[g].measurements[c].obs.id, b)]]

\* whether coeffs_groupings holds one plain coefficient per tape rather than
\* one coefficient vector per tape
PlainCoeffs(h, group) == ~(group \/ h.grouping_indices # NoGrouping)

\* qml.math.dot(qml.math.squeeze(r), c)
Dot(r, c, plain) ==
    IF plain THEN r[1] * c
    ELSE SumSeq([k \in 1..(IF Len(r) <= Len(c) THEN Len(r) ELSE Len(c)) |-> r[k] * c[k]])

\* processing_fn(res): the sum of dot(r, c) for c, r in zip(coeffs_groupings, res)
ProcessingFnH(coeffs_groupings, res, plain) ==
    SumSeq([i \in 1..ZipLen(coeffs_groupings, res) |->
               Dot(res[i], coeffs_groupings[i], plain)])

\* the returned tapes are executed and processing_fn is applied to the results
ApplyProcessingFn(b) ==
    /\ hout.status = "returned"
    /\ "value" \notin DOMAIN hout
    /\ \E res \in {ExecuteGroupTapes(hout.tapes, b)} :
          hout' = [status |-> "returned",
                   tapes  |-> hout.tapes,
                   coeffs_groupings |-> hout.coeffs_groupings,
                   res    |-> res,
                   value  |-> ProcessingFnH(hout.coeffs_groupings, res,
                                            PlainCoeffs(hcall.tape.measurements[1].obs,
                                                        hcall.group))]
    /\ UNCHANGED <<batch, call, frames, last, hcall, drawer>>

NextH ==
    \/ HamiltonianExpand
    \/ \E b \in ResultBases : ApplyProcessingFn(b)

SpecH == InitH /\ [][NextH]_vars

----------------------------------------------------------------------------
(* MPLDrawer.box_gate.  Lengths are in tenths of a unit of the axes.       *)

\* most layers and wires of a drawer, and most calls to box_gate
MaxLayers == 2
MaxWires == 2
MaxBoxes == 2

\* self._box_dx, half the width of a box
BoxDx == 4

\* the values of extra_width and zorder_base passed to box_gate
ExtraWidths == {0, 2}
ZorderBases == {0, 2}

\* the wires argument: an int, or an iterable of ints
WiresArgs(n_wires) ==
    {[kind |-> "int", v |-> w] : w \in 0..(n_wires - 1)}
    \cup {[kind |-> "iterable", v |-> <<a, b>>] :
              a \in 0..(n_wires - 1), b \in 0..(n_wires - 1)}

\* the box_kwargs and text_kwargs arguments: None or a dict
BoxKwargs ==
    {[given |-> FALSE, dict |-> <<>>],
     [given |-> TRUE, dict |-> [facecolor |-> "lightcoral"]]}
TextKwargs ==
    {[given |-> FALSE, dict |-> <<>>],
     [given |-> TRUE, dict |-> [fontsize |-> "small"]],
     [given |-> TRUE, dict |-> [rotation |-> "vertical"]]}

\* _to_tuple(a)
ToTuple(a) == IF a.kind = "int" THEN <<a.v>> ELSE a.v

MinOf(t) == CHOOSE m \in {t[i] : i \in 1..Len(t)} : \A i \in 1..Len(t) : m <= t[i]
MaxOf(t) == CHOOSE m \in {t[i] : i \in 1..Len(t)} : \A i \in 1..Len(t) : m >= t[i]

\* `if kwargs is None: kwargs = dict()`
OrEmptyDict(kw) == IF kw.given THEN kw.dict ELSE <<>>

\* d.update(t), and a call f(k=v, **d)
DictUpdate(d, t) ==
    [k \in DOMAIN d \cup DOMAIN t |-> IF k \in DOMAIN t THEN t[k] ELSE d[k]]

\* the local variable rotation
SelectRotation(rotate_text) == IF rotate_text THEN "vertical" ELSE "horizontal"

\* plt.Rectangle(xy, width, height, zorder=2 + zorder_base, **box_kwargs)
BoxPatch(layer, wires, extra_width, zorder_base, box_kwargs) ==
    LET box_min == MinOf(wires)
        box_max == MaxOf(wires)
        box_len == box_max - box_min
    IN  [kind   |-> "patch",
         xy     |-> <<10 * layer - BoxDx - extra_width \div 2, 10 * box_min - BoxDx>>,
         width  |-> 2 * BoxDx + extra_width,
         height |-> 10 * box_len + 2 * BoxDx,
         kwargs |-> DictUpdate([zorder |-> 2 + zorder_base], box_kwargs)]

\* the keyword arguments of the text: the defaults, updated by text_kwargs
DefaultTextKwargs(text_kwargs) ==
    DictUpdate([ha |-> "center", va |-> "center", fontsize |-> "x-large"], text_kwargs)

\* self.ax.text(layer, box_center, text, zorder=3 + zorder_base,
\*              **default_text_kwargs)
BoxText(layer, wires, text, zorder_base, text_kwargs) ==
    [kind   |-> "text",
     x      |-> 10 * layer,
     y      |-> 5 * (MaxOf(wires) + MinOf(wires)),
     s      |-> text,
     kwargs |-> DictUpdate([zorder |-> 3 + zorder_base], DefaultTextKwargs(text_kwargs))]

\* the rotation matplotlib draws a text with: its rotation keyword, or
\* horizontal when none was passed
RotationOf(artist) ==
    IF "rotation" \in DOMAIN artist.kwargs THEN artist.kwargs["rotation"] ELSE "horizontal"

InitD ==
    /\ batch = <<NewTape(1, <<>>)>>
    /\ call = [device |-> "dev", execute_fn |-> "backward_mode",
               gradient_fn |-> [inGradients |-> TRUE, fn |-> "none"],
               gradient_kwargs |-> "kw", n |-> 1, max_diff |-> 1]
    /\ frames = <<>>
    /\ last = NoCall
    /\ hcall = NoExpand
    /\ hout = [status |-> "none"]
    /\ drawer \in {NewDrawer(l, w) : l \in 1..MaxLayers, w \in 1..MaxWires}

\* drawer.box_gate(layer, wires, text, extra_width, rotate_text, zorder_base,
\*                 box_kwargs, text_kwargs)
BoxGate(layer, wires, text, extra_width, rotate_text, zorder_base, box_kwargs, text_kwargs) ==
    /\ Len(drawer.log) < MaxBoxes
    /\ drawer' =
          [drawer EXCEPT
              !.ax  = @ \o <<BoxPatch(layer, ToTuple(wires), extra_width, zorder_base,
                                      OrEmptyDict(box_kwargs)),
                             BoxText(layer, ToTuple(wires), text, zorder_base,
                                     OrEmptyDict(text_kwargs))>>,
              !.log = Append(@, [rotate_text |-> rotate_text, text_kwargs |-> text_kwargs,
                                 text |-> Len(drawer.ax) + 2])]
    /\ UNCHANGED <<batch, call, frames, last, hcall, hout>>

NextD ==
    \E layer \in 0..(drawer.n_layers - 1), wires \in WiresArgs(drawer.n_wires),
       extra_width \in ExtraWidths, rotate_text \in BOOLEAN, zorder_base \in ZorderBases,
       box_kwargs \in BoxKwargs, text_kwargs \in TextKwargs :
        BoxGate(layer, wires, "X", extra_width, rotate_text, zorder_base,
                box_kwargs, text_kwargs)

SpecD == InitD /\ [][NextD]_vars

----------------------------------------------------------------------------
(* Properties of the backward pass.                                        *)

\* a backward invocation has happened; Invoked is the frame it was made on
Backward == last.op = "grad_fn"
Invoked == frames[last.frame]

\* the Jacobian list the forward call to execute_fn returned for frame f
ForwardJacs(f) == ExecuteFn(f.execute_fn, UnwrapEnter(f.tapes)).jacs

\* the calls of the last backward invocation to fn made by the function by
CallsTo(fn, by) ==
    Cardinality({c \in 1..Len(last.calls) :
                    last.calls[c].fn = fn /\ last.calls[c].by = by})

\* the parameters of a batch of tapes, tape by tape
ParamsOf(tps) == [i \in 1..Len(tps) |-> tps[i].params]

\* C1: when the forward call returned a non-empty Jacobian list, grad_fn(dy)
\* returns the contractions compute_vjp(dy[i], jacs[i]) of all tapes,
\* concatenated in tape order, and calls neither execute_fn, gradient_fn,
\* batch_vjp nor execute, whatever gradient_fn, _n and max_diff are.
C1_DirectContraction ==
    (Backward /\ ForwardJacs(Invoked) # <<>>) =>
        /\ last.raised = "none"
        /\ last.ret.vjps =
              Flatten([i \in 1..Len(Invoked.tapes) |->
                          compute_vjp(last.dy[i], ForwardJacs(Invoked)[i])])
        /\ last.calls = <<>>
        /\ Len(frames) = last.frame

\* C1 at work: two tapes with forward Jacobians, a transform as gradient_fn
\* with depth left to recurse, and a non-empty VJP vector.
C1_Witness ==
    /\ Backward
    /\ ForwardJacs(Invoked) # <<>>
    /\ Len(Invoked.tapes) = 2
    /\ Invoked.gradient_fn.inGradients
    /\ Invoked.n < Invoked.max_diff
    /\ Len(last.ret.vjps) = 2

\* the preconditions shared by the two transform branches
TransformBackward ==
    /\ Backward
    /\ ForwardJacs(Invoked) = <<>>
    /\ IsGradientTransform(Invoked.gradient_fn)

\* C2: with empty forward Jacobians, a differentiable transform and
\* _n < max_diff, a backward invocation (whose batch_vjp returns) makes
\* exactly one recursive call to execute, on the VJP tapes, with _n + 1 and
\* the same max_diff, device, execute_fn, gradient_fn and gradient_kwargs,
\* and makes no call to execute_fn of its own.
C2_OneRecursiveCall ==
    (TransformBackward /\ Invoked.n < Invoked.max_diff /\ last.raised # "batch_vjp") =>
        /\ CallsTo("execute", "grad_fn") = 1
        /\ CallsTo("execute_fn", "grad_fn") = 0
        /\ Len(frames) = last.frame + 1
        /\ LET inner == frames[last.frame + 1]
           IN  /\ inner.n = Invoked.n + 1
               /\ inner.max_diff = Invoked.max_diff
               /\ inner.device = Invoked.device
               /\ inner.execute_fn = Invoked.execute_fn
               /\ inner.gradient_fn = Invoked.gradient_fn
               /\ inner.gradient_kwargs = Invoked.gradient_kwargs
               /\ ParamsOf(inner.tapes) = ParamsOf(VjpTapes(Invoked.tapes))

\* C2 at work: a recursive backward pass over two tapes that returned a
\* non-empty VJP vector.
C2_Witness ==
    /\ TransformBackward
    /\ Invoked.n < Invoked.max_diff
    /\ last.raised = "none"
    /\ Len(Invoked.tapes) = 2
    /\ Len(last.ret.vjps) = 2

\* C3: with empty forward Jacobians, a differentiable transform and
\* _n = max_diff, a backward invocation (whose _update and batch_vjp return)
\* calls execute_fn exactly once, makes no recursive call to execute and
\* creates no further executor invocation; nothing is raised unless
\* execute_fn itself raises, also at a nesting level reached by differentiating
\* a gradient again.
C3_OneDirectExecution ==
    (TransformBackward /\ Invoked.n = Invoked.max_diff
        /\ last.raised \notin {"_update", "batch_vjp"}) =>
        /\ CallsTo("execute_fn", "grad_fn") = 1
        /\ CallsTo("execute", "grad_fn") = 0
        /\ CallsTo("execute_fn", "_execute") = 0
        /\ Len(frames) = last.frame
        /\ last.raised \in {"none", "execute_fn"}
        /\ last.raised = "none" => last.ret.kind \in {"vjps", "pair"}

\* C3 at work: the gradient of a gradient is asked for at _n = max_diff = 2;
\* the backward pass of the nested invocation returns without recursing.
C3_Witness ==
    /\ TransformBackward
    /\ last.frame = 2
    /\ Invoked.n = Invoked.max_diff
    /\ last.raised = "none"
    /\ Len(last.ret.vjps) >= 2

\* C4: for _n >= 1, max_diff >= 1 and a differentiable transform, the nesting
\* counter of every executor invocation stays within max_diff, and an
\* invocation that recurses on its backward pass still has depth left, so
\* that the chain of recursive calls ends in the non-recursive branch.
C4_NestingBounded ==
    \A k \in 1..Len(frames) :
        (/\ call.n >= 1
         /\ call.max_diff >= 1
         /\ IsGradientTransform(frames[k].gradient_fn)) =>
            /\ frames[k].n <= frames[k].max_diff
            /\ (frames[k].jacs = <<>> /\ frames[k].n # frames[k].max_diff) =>
                   frames[k].n < frames[k].max_diff

\* gradient_fn is neither a differentiable transform nor a method bound to
\* the device handed to execute
UnknownGradientFunction(f) ==
    /\ ~IsGradientTransform(f.gradient_fn)
    /\ f.gradient_fn.fn # f.device

\* C5 as stated: with such a gradient_fn, a backward pass that has to compute
\* the Jacobians raises the ValueError, and the tapes are then what they were
\* before execute was called, trainable index sets included.
C5_AsStated ==
    (Backward /\ UnknownGradientFunction(Invoked) /\ ForwardJacs(Invoked) = <<>>) =>
        /\ last.raised = "ValueError"
        /\ Invoked.tapes = batch

\* C5, amended: with such a gradient_fn, a backward pass that has to compute
\* the Jacobians raises the ValueError before calling anything; afterwards
\* every tape is wrapped, holds its parameters unchanged, and holds the
\* trainable index set execute recomputed and stored, which need not be the
\* one it had before the call.
C5_UnknownGradientFn ==
    (Backward /\ UnknownGradientFunction(Invoked) /\ ForwardJacs(Invoked) = <<>>) =>
        /\ last.raised = "ValueError"
        /\ last.calls = <<>>
        /\ Len(frames) = 1
        /\ Len(Invoked.tapes) = Len(batch)
        /\ \A i \in 1..Len(batch) :
              /\ ~Invoked.tapes[i].unwrapped
              /\ Invoked.tapes[i].params = batch[i].params
              /\ Invoked.tapes[i].nmeas = batch[i].nmeas
              /\ Invoked.tapes[i].trainable_params =
                    {j \in 1..Len(batch[i].params) : batch[i].params[j].tr}

\* C5 at work: the ValueError is raised for a batch whose stored trainable
\* index sets execute has changed.
C5_Witness ==
    /\ Backward
    /\ UnknownGradientFunction(Invoked)
    /\ last.raised = "ValueError"
    /\ Invoked.gradient_fn.fn = "other_dev"
    /\ Invoked.tapes # batch

\* C6: after every forward and every backward invocation, returned or raised,
\* no tape of any batch is left unwrapped.
C6_UnwrapScoped ==
    \A k \in 1..Len(frames) :
        \A i \in 1..Len(frames[k].tapes) : ~frames[k].tapes[i].unwrapped

\* C6 at work: tape._update or batch_vjp has raised inside the Unwrap block of
\* the depth-exhausted branch.
C6_Witness ==
    /\ Backward
    /\ last.branch = "DEPTH_EXHAUSTED_VJP"
    /\ last.raised \in {"_update", "batch_vjp"}
    /\ Len(Invoked.tapes) = 2

IsTracked(p) == p.tr

\* C7: the parameter vector of every executor invocation is the concatenation,
\* in tape order and then in parameter order, of the tracked parameters of
\* each tape, the stored index set of each tape is the recomputed one, and
\* the vector's length is the sum of the tapes' trainable-parameter counts.
C7_ParameterVector ==
    \A k \in 1..Len(frames) :
        LET f == frames[k]
        IN  /\ \A i \in 1..Len(f.tapes) :
                  f.tapes[i].trainable_params =
                      {j \in 1..Len(f.tapes[i].params) : f.tapes[i].params[j].tr}
            /\ f.parameters =
                  Flatten([i \in 1..Len(f.tapes) |-> SelectSeq(f.tapes[i].params, IsTracked)])
            /\ Len(f.parameters) =
                  SumSeq([i \in 1..Len(f.tapes) |-> Cardinality(f.tapes[i].trainable_params)])

\* C7 at work: of two tapes the first holds an untracked parameter, which the
\* index set it was constructed with still lists; the vector holds the
\* second tape's parameter alone.
C7_Witness ==
    /\ Len(frames) = 1
    /\ Len(frames[1].tapes) = 2
    /\ Len(batch[1].params) = 1
    /\ ~batch[1].params[1].tr
    /\ batch[1].trainable_params = {1}
    /\ Len(frames[1].parameters) = 1

\* the tape that position pos of the parameter vector of tps belongs to
TapeAt(tps, pos) ==
    CHOOSE i \in 1..Len(tps) :
        /\ SumSeq([k \in 1..(i - 1) |-> num_params(tps[k])]) < pos
        /\ pos <= SumSeq([k \in 1..i |-> num_params(tps[k])])

\* what the device's function makes of the VJP entry of parameter p of a tape
\* with upstream gradient d: a contraction with the Jacobian column of p, or
\* with the result of the tape that shifts p
ExpectedEntry(branch, tape, d, p) ==
    IF branch \in {"DIRECT_VJP", "DEVICE_VJP"}
    THEN SumSeq([r \in 1..Len(d) |-> d[r] * 2 * r * p.val])
    ELSE SumSeq([r \in 1..Len(d) |->
                    d[r] * r * (SquareSum(tape) + 2 * Shift * p.val + Shift * Shift)])

\* the VJP vector of the last backward invocation lines up with the
\* parameter vector, entry by entry
VjpsLineUp ==
    LET f == Invoked
        v == last.ret.vjps
    IN  /\ Len(v) = Len(f.parameters)
        /\ \A pos \in 1..Len(v) :
              v[pos] = ExpectedEntry(last.branch, f.tapes[TapeAt(f.tapes, pos)],
                                     last.dy[TapeAt(f.tapes, pos)], f.parameters[pos])

\* C8: in every branch that returns, the VJP vector has the length and the
\* order of the forward parameter vector; tapes without trainable parameters
\* give an empty parameter vector and an empty VJP vector.
C8_VjpShape ==
    (Backward /\ last.raised = "none") =>
        /\ VjpsLineUp
        /\ (\A i \in 1..Len(Invoked.tapes) : Invoked.tapes[i].trainable_params = {}) =>
               (Invoked.parameters = <<>> /\ last.ret.vjps = <<>>)

\* C8 at work: the device-gradient branch over two tapes with one trainable
\* parameter each.
C8_Witness ==
    /\ Backward
    /\ last.raised = "none"
    /\ last.branch = "DEVICE_VJP"
    /\ Len(Invoked.tapes) = 2
    /\ Len(last.ret.vjps) = 2

\* C9: grad_fn returns the pair (vjps, variables) exactly when a 'variables'
\* keyword with a value other than None is passed, and the VJP vector alone
\* otherwise; the variables are passed through and the VJP vector is the one
\* the branch computes in either case.
C9_VariablesPassThrough ==
    (Backward /\ last.raised = "none") =>
        /\ last.ret.kind \in {"pair", "vjps"}
        /\ last.ret.kind = "pair" <=>
              ("variables" \in DOMAIN last.tfkwargs /\ last.tfkwargs["variables"] # "None")
        /\ last.ret.kind = "pair" => last.ret.variables = last.tfkwargs["variables"]
        /\ VjpsLineUp

\* C9 at work: variables=None is passed explicitly and a non-empty VJP vector
\* comes back alone.
C9_Witness ==
    /\ Backward
    /\ last.raised = "none"
    /\ "variables" \in DOMAIN last.tfkwargs
    /\ last.tfkwargs["variables"] = "None"
    /\ last.ret.kind = "vjps"
    /\ Len(last.ret.vjps) = 2

\* what gradient_fn is to an executor invocation, the transform test first
GradientFnKind(f) ==
    IF f.gradient_fn.inGradients THEN "transform"
    ELSE IF f.gradient_fn.fn = f.device THEN "device_method"
    ELSE "unknown"

\* the branch the state machine assigns to an invocation
BranchTable(hasJacs, kind, atDepth) ==
    IF hasJacs THEN "DIRECT_VJP"
    ELSE IF kind = "transform"
         THEN (IF atDepth THEN "DEPTH_EXHAUSTED_VJP" ELSE "RECURSIVE_VJP")
    ELSE IF kind = "device_method" THEN "DEVICE_VJP"
    ELSE "ERROR"

\* C13 as stated: a backward invocation whose external calls return takes the
\* branch given by (forward Jacobians empty or not, kind of gradient_fn,
\* _n = max_diff), ends in ERROR exactly when that branch is ERROR, and never
\* does so when the forward Jacobians are non-empty.
C13_AsStated ==
    (Backward /\ last.raised \in {"none", "ValueError"}) =>
        /\ last.branch = BranchTable(ForwardJacs(Invoked) # <<>>, GradientFnKind(Invoked),
                                     Invoked.n = Invoked.max_diff)
        /\ last.raised = "ValueError" <=> last.branch = "ERROR"
        /\ last.branch = "ERROR" => ForwardJacs(Invoked) = <<>>

\* a step of the executor that is a backward invocation
InvocationStep == frames # <<>> /\ last'.op = "grad_fn"

\* C13, amended: every backward invocation is made on a closure whose forward
\* pass returned, and takes the branch given by (Jacobians stored in the
\* closure empty or not, kind of gradient_fn, _n = max_diff), where the stored
\* Jacobians are those of the forward pass or those an earlier invocation in
\* the device-gradient branch obtained; the transform test precedes the
\* device-method test; a branch other than ERROR whose external calls return
\* ends in DONE with a return value; ERROR is the ValueError, raised by the
\* branch selection before any call is made, and only with empty stored and
\* empty forward Jacobians.
C13_BranchSelection ==
    [][InvocationStep =>
          LET f == frames[last'.frame]
          IN  /\ f.status = "FORWARD_EXECUTED"
              /\ last'.branch = BranchTable(f.jacs # <<>>, GradientFnKind(f),
                                            f.n = f.max_diff)
              /\ last'.raised = "ValueError" <=> last'.branch = "ERROR"
              /\ (last'.branch # "ERROR" /\ last'.raised = "none") =>
                     last'.ret.kind \in {"vjps", "pair"}
              /\ last'.branch = "ERROR" =>
                     /\ f.jacs = <<>>
                     /\ ForwardJacs(f) = <<>>
                     /\ last'.calls = <<>>
                     /\ frames' = frames]_vars

\* C13 at work: the forward pass returned no Jacobians, yet an invocation took
\* the direct branch, on the Jacobians an earlier invocation had stored.
C13_Witness ==
    /\ Backward
    /\ last.branch = "DIRECT_VJP"
    /\ ForwardJacs(Invoked) = <<>>
    /\ last.ret.kind = "pair"

\* C14: an invocation in the device-gradient branch (forward Jacobians empty,
\* gradient_fn.fn bound to the device handed to execute, gradient_fn not of
\* the gradients package) calls gradient_fn exactly once, on the unwrapped
\* tapes and with gradient_kwargs, calls neither execute_fn, batch_vjp nor
\* execute whatever _n and max_diff are, and returns the contraction of dy
\* against the Jacobians it obtained, as the direct branch computes it.
C14_DeviceGradient ==
    (Backward /\ last.branch = "DEVICE_VJP") =>
        /\ ForwardJacs(Invoked) = <<>>
        /\ Invoked.gradient_fn.fn = Invoked.device
        /\ ~Invoked.gradient_fn.inGradients
        /\ last.calls = <<CallEntry("gradient_fn", "grad_fn", TRUE, Invoked.gradient_kwargs)>>
        /\ Len(frames) = last.frame
        /\ last.raised \in {"none", "gradient_fn"}
        /\ last.raised = "none" =>
              /\ Invoked.jacs = [i \in 1..Len(Invoked.tapes) |->
                                    DeviceJacobian(Invoked.tapes[i])]
              /\ last.ret.vjps = DirectVjp(Invoked, last.dy, "none").vjps
              /\ last.ret.vjps =
                    Flatten([i \in 1..Len(Invoked.tapes) |->
                                [c \in 1..Cardinality(Invoked.tapes[i].trainable_params) |->
                                    SumSeq([r \in 1..Invoked.tapes[i].nmeas |->
                                               last.dy[i][r] * Invoked.jacs[i][r][c]])]])

\* C14 at work: the device-gradient branch at _n > max_diff, over two tapes.
C14_Witness ==
    /\ Backward
    /\ last.branch = "DEVICE_VJP"
    /\ last.raised = "none"
    /\ Invoked.n > Invoked.max_diff
    /\ Len(Invoked.tapes) = 2
    /\ Len(last.ret.vjps) = 2

TransformBranches == {"DEPTH_EXHAUSTED_VJP", "RECURSIVE_VJP"}

\* C15: an invocation in the device-gradient branch that returns leaves its
\* Jacobians stored in the closure; every invocation of a closure that holds
\* such Jacobians takes the direct branch, calls nothing, leaves them as they
\* are and contracts dy against them; an invocation in a transform branch
\* leaves the stored Jacobians empty, so that the next invocation of the
\* closure takes the same branch and makes the same calls again.
C15_JacobiansStored ==
    [][InvocationStep =>
          LET k == last'.frame
              f == frames[k]
          IN  /\ (last'.branch = "DEVICE_VJP" /\ last'.raised = "none") =>
                     /\ frames'[k].jacs # <<>>
                     /\ Len(frames'[k].jacs) = Len(f.tapes)
              /\ (f.jacs # <<>> /\ ForwardJacs(f) = <<>>) =>
                     /\ last'.branch = "DIRECT_VJP"
                     /\ last'.calls = <<>>
                     /\ frames'[k].jacs = f.jacs
                     /\ last'.ret.vjps =
                           Flatten([i \in 1..Len(f.tapes) |->
                                       compute_vjp(last'.dy[i], f.jacs[i])])
              /\ last'.branch \in TransformBranches =>
                     /\ f.jacs = <<>>
                     /\ frames'[k].jacs = <<>>
              /\ (/\ last.op = "grad_fn"
                  /\ last.frame = k
                  /\ last.branch \in TransformBranches) =>
                     /\ last'.branch = last.branch
                     /\ last'.calls = last.calls
                     /\ last'.calls # <<>>]_vars

\* C15 at work: a closure whose gradient_fn is a device method has been
\* invoked again; the invocation found the stored Jacobians of both tapes and
\* called nothing.
C15_Witness ==
    /\ Backward
    /\ last.branch = "DIRECT_VJP"
    /\ last.calls = <<>>
    /\ ForwardJacs(Invoked) = <<>>
    /\ IsDeviceMethod(Invoked.gradient_fn, Invoked.device)
    /\ Len(Invoked.jacs) = 2
    /\ Len(last.ret.vjps) = 2

----------------------------------------------------------------------------
(* Properties of hamiltonian_expand.                                       *)

\* the tape ends in exactly one measurement, the expectation value of a
\* Hamiltonian
EndsInExpvalH(tape) ==
    /\ Len(tape.measurements) = 1
    /\ tape.measurements[1].obs.type = "Hamiltonian"
    /\ tape.measurements[1].return_type = "Expectation"

\* C10: hamiltonian_expand raises the ValueError for every tape that does not
\* end in exactly one expectation value of a Hamiltonian, a tape without
\* measurements included, and returns (tapes, processing_fn) otherwise.
C10_ValueErrorUnlessExpvalH ==
    hout.status # "none" =>
        IF EndsInExpvalH(hcall.tape)
        THEN hout.status = "returned"
        ELSE hout.status = "ValueError"

\* the groups of term indices the call has to split the Hamiltonian h into
GroupsOf(h, group) ==
    IF group \/ h.grouping_indices # NoGrouping
    THEN (IF h.grouping_indices # NoGrouping THEN h.grouping_indices ELSE h.computed)
    ELSE [i \in 1..Len(h.ops) |-> <<i>>]

----------------------------------------------------------------------------
(* Properties of MPLDrawer.box_gate.                                       *)

\* C12: the label text that box_gate adds to the axes is rotated by 90
\* degrees (vertical) when rotate_text=True and is horizontal when
\* rotate_text=False, for every call that passes no rotation of its own in
\* text_kwargs.
C12_TextRotation ==
    \A i \in 1..Len(drawer.log) :
        LET c == drawer.log[i]
        IN  "rotation" \notin DOMAIN OrEmptyDict(c.text_kwargs) =>
                /\ drawer.ax[c.text].kind = "text"
                /\ RotationOf(drawer.ax[c.text]) = SelectRotation(c.rotate_text)

====
